---- MODULE Spec2Model ----
(***************************************************************************)
(* Model of colbert/modeling/tokenization/query_tokenization.py:           *)
(* QueryTokenizer.tensorize and QueryTokenizer.max_len.                    *)
(*                                                                         *)
(* A tensor of shape (B, L) is a sequence of B rows, each a sequence of L  *)
(* integers.  Python column c is index c + 1 here.  A string is modelled   *)
(* by the sequence of token ids the wordpiece tokenizer produces for it    *)
(* (without special tokens); '. ' + x is <<DotId>> \o x.                   *)
(*                                                                         *)
(* self.tok is the checkpoint's BERT tokenizer: with special tokens it     *)
(* encodes a text as [CLS] content [SEP], truncation keeps the first       *)
(* max_length - 2 content tokens, padding is on the right with the pad id  *)
(* and attention 0.  The ids of the special tokens are those of the BERT   *)
(* vocabulary; the marker is [unused0].                                    *)
(***************************************************************************)
EXTENDS Integers, Sequences, FiniteSets, TLC

\* ------------------------------------------------------------------ bounds
MinQueryMaxlen == 3
MaxQueryMaxlen == 5
MaxCapPadding == 1
MaxBatch == 2
MaxTokens == 2
MaxContextTokens == 1
MaxBsize == 1
\* bounds of the max_len specification
SmallQueryMaxlen == 6
OverQueryMaxlen == 2
SmallLength == 6
OverLength == 3

\* --------------------------------------------------------- token ids
pad_token_id == 0
Q_marker_token_id == 1
cls_token_id == 101
sep_token_id == 102
mask_token_id == 103
DotId == 1012
WordId == 2054
CEILING == 500
MODEL_MAX == 512

\* ------------------------------------------------------------ helpers
Min(a, b) == IF a < b THEN a ELSE b
Max(a, b) == IF a > b THEN a ELSE b
Rep(x, n) == [j \in 1..n |-> x]
Take(s, n) == SubSeq(s, 1, Min(n, Len(s)))
SetMax(S) == CHOOSE m \in S : \A x \in S : x <= m
Width(t) == IF Len(t) = 0 THEN 0 ELSE Len(t[1])

RECURSIVE SumSeq(_)
SumSeq(s) == IF Len(s) = 0 THEN 0 ELSE s[1] + SumSeq(Tail(s))

\* mask.sum()
TensorSum(t) == SumSeq([i \in 1..Len(t) |-> SumSeq(t[i])])

\* ------------------------------------------------------------ max_len
\* variant: the lower clamp is missing
max_len_no_floor(query_maxlen, length) == Min(CEILING, length)

\* min(500, max(self.query_maxlen, length))
max_len(query_maxlen, length) == Min(CEILING, Max(query_maxlen, length))

\* --------------------------------------------------- the tokenizer call
\* self.tok(x, truncation=True, max_length=m): [CLS] + content cut to
\* m - 2 tokens + [SEP]
EncodeRow(content, m) == <<cls_token_id>> \o Take(content, m - 2) \o <<sep_token_id>>

\* padding='max_length': every row is padded on the right to m
TokMaxLength(texts, m) ==
    LET enc == [i \in 1..Len(texts) |-> EncodeRow(texts[i], m)]
    IN [input_ids |-> [i \in 1..Len(texts) |->
                          enc[i] \o Rep(pad_token_id, m - Len(enc[i]))],
        attention_mask |-> [i \in 1..Len(texts) |->
                          Rep(1, Len(enc[i])) \o Rep(0, m - Len(enc[i]))]]

\* padding='longest': every row is padded to the longest encoded row
TokLongest(texts, m) ==
    LET enc == [i \in 1..Len(texts) |-> EncodeRow(texts[i], m)]
        w == SetMax({Len(enc[i]) : i \in 1..Len(texts)})
    IN [input_ids |-> [i \in 1..Len(texts) |->
                          enc[i] \o Rep(pad_token_id, w - Len(enc[i]))],
        attention_mask |-> [i \in 1..Len(texts) |->
                          Rep(1, Len(enc[i])) \o Rep(0, w - Len(enc[i]))]]

\* ------------------------------------------------- steps of tensorize
\* batch_text = ['. ' + x for x in batch_text]
Placeholder(batch) == [i \in 1..Len(batch) |-> <<DotId>> \o batch[i]]

\* max(len(x) for x in un_truncated_ids), add_special_tokens=False
MaxLengthInBatch(texts) == SetMax({Len(texts[i]) : i \in 1..Len(texts)})

\* the max_length passed to the padded tokenizer call
TargetLength(query_maxlen, texts, fls) ==
    IF fls THEN max_len(query_maxlen, MaxLengthInBatch(texts)) ELSE query_maxlen

\* variant: the marker is written to column 0
MarkQFirstColumn(ids) == [i \in 1..Len(ids) |-> [ids[i] EXCEPT ![1] = Q_marker_token_id]]

\* ids[:, 1] = self.Q_marker_token_id
MarkQ(ids) == [i \in 1..Len(ids) |-> [ids[i] EXCEPT ![2] = Q_marker_token_id]]

\* unpadded_sizes = (ids != self.pad_token_id).sum(dim=1)
UnpaddedSizes(ids) ==
    [i \in 1..Len(ids) |->
        Cardinality({j \in 1..Len(ids[i]) : ids[i][j] # pad_token_id})]

\* variant: the pad ids are left in place
PadToMaskSkipped(ids) == ids

\* ids[ids == self.pad_token_id] = self.mask_token_id
PadToMask(ids) ==
    [i \in 1..Len(ids) |-> [j \in 1..Len(ids[i]) |->
        IF ids[i][j] = pad_token_id THEN mask_token_id ELSE ids[i][j]]]

\* variant: the per-row overwrite is missing
CapRowsSkipped(t, unpadded_sizes, k, v) == t

\* the per-row overwrite of the cap_padding loop: t[i, max_allowed_length:] = v
CapRows(t, unpadded_sizes, k, v) ==
    [i \in 1..Len(t) |->
        LET max_allowed_length == unpadded_sizes[i] + k
        IN IF Len(t[i]) > max_allowed_length
           THEN [j \in 1..Len(t[i]) |-> IF j > max_allowed_length THEN v ELSE t[i][j]]
           ELSE t[i]]

\* variant: the batch is trimmed to its shortest row's allowance
TrimLengthMinRow(unpadded_sizes, k, w) ==
    Min(0 - SetMax({0 - (unpadded_sizes[i] + k) : i \in 1..Len(unpadded_sizes)}), w)

\* variant: the batch-wide trim is missing
TrimLengthFull(unpadded_sizes, k, w) == w

\* max_length = min(max(unpadded_size + cap_padding ...), ids.size(1))
TrimLength(unpadded_sizes, k, w) ==
    Min(SetMax({unpadded_sizes[i] + k : i \in 1..Len(unpadded_sizes)}), w)

\* t[:, :n]
Slice(t, n) == [i \in 1..Len(t) |-> Take(t[i], n)]

\* variant: column 0 of the context is kept
DropNothing(t) == t

\* t[:, 1:]
DropFirst(t) == [i \in 1..Len(t) |-> Tail(t[i])]

\* torch.cat((a, b), dim=-1)
Cat(a, b) == [i \in 1..Len(a) |-> a[i] \o b[i]]

\* mask[ids == self.mask_token_id] = 1
AttendOverride(ids, mask) ==
    [i \in 1..Len(mask) |-> [j \in 1..Len(mask[i]) |->
        IF ids[i][j] = mask_token_id THEN 1 ELSE mask[i][j]]]

\* variant: the assertion is missing
DenseUnchecked(mask) == TRUE

\* mask.sum().item() == mask.size(0) * mask.size(1)
Dense(mask) == TensorSum(mask) = Len(mask) * Width(mask)

\* _split_into_batches(ids, mask, bsize): consecutive chunks of bsize rows
RECURSIVE split_into_batches(_, _, _)
split_into_batches(ids, mask, bsize) ==
    IF Len(ids) = 0 THEN <<>>
    ELSE <<[ids |-> Take(ids, bsize), mask |-> Take(mask, bsize)]>>
         \o split_into_batches(SubSeq(ids, bsize + 1, Len(ids)),
                               SubSeq(mask, bsize + 1, Len(mask)), bsize)

\* self.used = True; if self.used is False: self.used = True; if verbose > 1: print
\* (the test reads the value the line before it has just written)
FirstExample(v) ==
    LET used1 == TRUE
    IN [used |-> used1, prints |-> IF used1 = FALSE /\ v > 1 THEN 1 ELSE 0]

\* ------------------------------------------------------------ tensorize
Failure(failed, texts, n, max_length) ==
    [outcome |-> "AssertionError", failed |-> failed, ids |-> <<>>, mask |-> <<>>,
     batches |-> <<>>, unpadded_sizes |-> <<>>, texts |-> texts, tok_width |-> 0,
     n |-> n, max_length |-> max_length,
     sets_used |-> FALSE, prints |-> 0]

\* lines 105-137: context splicing, the attend_to_mask_tokens override and
\* its assertion, the bsize split, the first-example latch
Finish(cfg, v, ids, mask, unp, texts, w, n, max_length, bsize, context) ==
    IF context.given /\ Len(context.texts) # Len(texts)
    THEN Failure("context", texts, n, max_length)
    ELSE
    LET obj_2 == TokLongest(context.texts, MODEL_MAX - cfg.query_maxlen + 1)
        ids3 == IF context.given THEN Cat(ids, DropFirst(obj_2.input_ids)) ELSE ids
        mask3 == IF context.given THEN Cat(mask, DropFirst(obj_2.attention_mask)) ELSE mask
        mask4 == IF cfg.attend_to_mask_tokens THEN AttendOverride(ids3, mask3) ELSE mask3
        latch == FirstExample(v)
        out == [outcome |-> "pair", failed |-> "", ids |-> ids3, mask |-> mask4,
                batches |-> <<>>, unpadded_sizes |-> unp, texts |-> texts,
                tok_width |-> w,
                n |-> n, max_length |-> max_length, sets_used |-> FALSE, prints |-> 0]
    IN IF cfg.attend_to_mask_tokens /\ ~Dense(mask4)
       THEN [out EXCEPT !.outcome = "AssertionError", !.failed = "dense",
                        !.ids = <<>>, !.mask = <<>>]
       ELSE IF bsize # 0
       THEN [out EXCEPT !.outcome = "batches",
                        !.batches = split_into_batches(ids3, mask4, bsize)]
       ELSE [out EXCEPT !.sets_used = latch.used, !.prints = latch.prints]

\* lines 53-101: placeholder, full-length assertion, tokenizer call, marker,
\* pad policy, adaptive cap; then Finish
tensorize(cfg, v, batch, bsize, context, fls) ==
    LET texts == Placeholder(batch)
    IN IF fls /\ Len(texts) # 1
       THEN Failure("full_length_search", <<>>, 0, 0)
       ELSE
       LET n == IF fls THEN MaxLengthInBatch(texts) ELSE 0
           max_length == TargetLength(cfg.query_maxlen, texts, fls)
           obj == TokMaxLength(texts, max_length)
           ids1 == MarkQ(obj.input_ids)
           unp == UnpaddedSizes(ids1)
           ids2 == IF cfg.query_pad_tok = "mask" THEN PadToMask(ids1) ELSE ids1
           k == cfg.cap_padding
           w == Width(ids2)
           capped == k > 0
           ids_q == IF capped
                    THEN Slice(CapRows(ids2, unp, k, pad_token_id), TrimLength(unp, k, w))
                    ELSE ids2
           mask_q == IF capped
                     THEN Slice(CapRows(obj.attention_mask, unp, k, 0), TrimLength(unp, k, w))
                     ELSE obj.attention_mask
       IN Finish(cfg, v, ids_q, mask_q, unp, texts, w, n, max_length, bsize, context)

\* ------------------------------------------------------------------ state
VARIABLES config, verbose, used, printed, call, ret, maxlen
vars == <<config, verbose, used, printed, call, ret, maxlen>>

PadPolicies == {"pad", "mask"}
\* verbose: the constructor's default
Verbosities == {3}
Configs ==
    [query_maxlen : MinQueryMaxlen..MaxQueryMaxlen, query_pad_tok : PadPolicies,
     cap_padding : 0..MaxCapPadding, attend_to_mask_tokens : BOOLEAN]

Queries == {Rep(WordId, c) : c \in 0..MaxTokens}
Batches == UNION {[1..b -> Queries] : b \in 1..MaxBatch}
ContextStrings == {Rep(WordId, c) : c \in 0..MaxContextTokens}
\* the context arguments tried with a batch of b strings: none, one
\* passage per query, or one passage too many
Contexts(b) ==
    {[given |-> FALSE, texts |-> <<>>]}
    \cup {[given |-> TRUE, texts |-> t] : t \in [1..b -> ContextStrings]}
    \cup {[given |-> TRUE, texts |-> Rep(<<>>, b + 1)]}

NoCall == [made |-> FALSE, rows |-> 0, bsize |-> 0,
           context |-> [given |-> FALSE, texts |-> <<>>], fls |-> FALSE]
NoRet == [outcome |-> "none", failed |-> "", ids |-> <<>>, mask |-> <<>>,
          batches |-> <<>>, unpadded_sizes |-> <<>>, texts |-> <<>>, tok_width |-> 0,
          n |-> 0, max_length |-> 0,
          sets_used |-> FALSE, prints |-> 0]
NoMaxLen == [called |-> FALSE, length |-> 0, result |-> 0]

\* QueryTokenizer.__init__
Init ==
    /\ config \in Configs
    /\ verbose \in Verbosities
    /\ used = FALSE
    /\ printed = 0
    /\ call = NoCall
    /\ ret = NoRet
    /\ maxlen = NoMaxLen

\* one call of QueryTokenizer.tensorize, from the caller's invocation to the
\* return or the raised AssertionError; call records the arguments (of the
\* batch its number of strings; ret.texts holds the strings once they are
\* marked) and ret what the caller got back
Tensorize ==
    /\ call.made = FALSE
    /\ \E batch \in Batches, bsize \in 0..MaxBsize, fls \in BOOLEAN :
         \E context \in Contexts(Len(batch)) :
         \E r \in {tensorize(config, verbose, batch, bsize, context, fls)} :
           /\ call' = [made |-> TRUE, rows |-> Len(batch), bsize |-> bsize,
                       context |-> context, fls |-> fls]
           /\ ret' = r
           /\ used' = (used \/ r.sets_used)
           /\ printed' = printed + r.prints
           /\ UNCHANGED <<config, verbose, maxlen>>

\* the caller takes the returned tensors (or handles the exception); the
\* instance keeps nothing of the call but the latch
Release ==
    /\ call.made = TRUE
    /\ call' = NoCall
    /\ ret' = NoRet
    /\ UNCHANGED <<config, verbose, used, printed, maxlen>>

Next == Tensorize \/ Release

Spec == Init /\ [][Next]_vars

\* --------------------------------------------- max_len on its own
\* query_maxlen is any positive configured length: small ones and the ones
\* around the ceiling of max_len (a BERT checkpoint takes up to 512)
QueryMaxlens == (1..SmallQueryMaxlen) \cup ((CEILING - 1)..(CEILING + OverQueryMaxlen))
Lengths == ((0 - 2)..SmallLength) \cup ((CEILING - 2)..(CEILING + OverLength))

InitMaxLen ==
    /\ config \in [query_maxlen : QueryMaxlens, query_pad_tok : {"mask"},
                   cap_padding : {0}, attend_to_mask_tokens : {FALSE}]
    /\ verbose = 3
    /\ used = FALSE
    /\ printed = 0
    /\ call = NoCall
    /\ ret = NoRet
    /\ maxlen = NoMaxLen

\* one call of QueryTokenizer.max_len
MaxLenCall ==
    \E length \in Lengths :
        /\ maxlen' = [called |-> TRUE, length |-> length,
                      result |-> max_len(config.query_maxlen, length)]
        /\ UNCHANGED <<config, verbose, used, printed, call, ret>>

NextMaxLen == MaxLenCall

SpecMaxLen == InitMaxLen /\ [][NextMaxLen]_vars

\* --------------------------------------------------------- properties
\* ret.ids and ret.mask are the final ids and mask of the call: returned as
\* the pair, or handed to the split when bsize is given
ReturnedPair == ret.outcome = "pair"
Returned == ret.outcome \in {"pair", "batches"}
NoContext == ~call.context.given
AllOnes(t) == \A i \in 1..Len(t) : \A j \in 1..Len(t[i]) : t[i][j] = 1
HasShape(t, b, l) == Len(t) = b /\ \A i \in 1..Len(t) : Len(t[i]) = l
MaxUnpadded == SetMax({ret.unpadded_sizes[i] : i \in 1..Len(ret.unpadded_sizes)})

C2_MarkerColumn ==
    Returned => \A i \in 1..Len(ret.ids) : ret.ids[i][2] = Q_marker_token_id

C2_Witness ==
    /\ ReturnedPair
    /\ call.rows = 2
    /\ config.query_pad_tok = "mask"
    /\ config.cap_padding > 0
    /\ \E i \in 1..2 : ret.tok_width > ret.unpadded_sizes[i] + config.cap_padding
    /\ call.context.given

\* C3 as stated: under the mask-token pad policy and without context no
\* returned id is the pad id, for every cap_padding >= 0.
C3_Original ==
    (Returned /\ NoContext /\ config.query_pad_tok = "mask") =>
        \A i \in 1..Len(ret.ids) : \A j \in 1..Len(ret.ids[i]) :
            ret.ids[i][j] # pad_token_id

\* C3 amended: under the mask-token pad policy and without context, no
\* returned id is the pad id when cap_padding = 0; when cap_padding = k > 0
\* a pad id occurs in row i only at columns >= unpadded_sizes[i] + k, where
\* the cap wrote it.
C3_NoPadBelowCap ==
    (Returned /\ NoContext /\ config.query_pad_tok = "mask") =>
        \A i \in 1..Len(ret.ids) : \A j \in 1..Len(ret.ids[i]) :
            ret.ids[i][j] = pad_token_id =>
                /\ config.cap_padding > 0
                /\ j > ret.unpadded_sizes[i] + config.cap_padding

C3_Witness ==
    /\ ReturnedPair /\ NoContext /\ config.query_pad_tok = "mask"
    /\ config.cap_padding > 0
    /\ \E i \in 1..Len(ret.ids) : \E j \in 1..Len(ret.ids[i]) : ret.ids[i][j] = mask_token_id
    /\ \E i \in 1..Len(ret.ids) : \E j \in 1..Len(ret.ids[i]) : ret.ids[i][j] = pad_token_id

\* C4: with attend_to_mask_tokens every call either returns a mask that is
\* all ones (sum = batch_size * L) or raises the AssertionError and returns
\* no tensor; no returned mask contains a 0.
C4_DenseOrFail ==
    (call.made /\ config.attend_to_mask_tokens) =>
        \/ /\ Returned
           /\ AllOnes(ret.mask)
           /\ TensorSum(ret.mask) = call.rows * Width(ret.mask)
        \/ /\ ret.outcome = "AssertionError"
           /\ ret.ids = <<>> /\ ret.mask = <<>> /\ ret.batches = <<>>

C4_Witness ==
    /\ config.attend_to_mask_tokens
    /\ ReturnedPair
    /\ \E i \in 1..Len(ret.ids) : \E j \in 1..Len(ret.ids[i]) : ret.ids[i][j] = mask_token_id

\* C5: with cap_padding = k > 0 and no context, every row of the returned
\* mask attends at most unpadded_sizes[i] + k positions.
C5_AttendedWithinCap ==
    (ReturnedPair /\ NoContext /\ config.cap_padding > 0) =>
        \A i \in 1..Len(ret.mask) :
            SumSeq(ret.mask[i]) <= ret.unpadded_sizes[i] + config.cap_padding

C5_Witness ==
    /\ ReturnedPair /\ NoContext /\ config.cap_padding > 0
    /\ config.attend_to_mask_tokens
    /\ \E i \in 1..Len(ret.mask) :
          /\ ret.tok_width > ret.unpadded_sizes[i] + config.cap_padding
          /\ SumSeq(ret.mask[i]) = ret.unpadded_sizes[i] + config.cap_padding

\* C6 as stated: in full-length search a query of n tokens with
\* query_maxlen <= n <= 500 keeps all its n tokens in the returned row:
\* token j of the marked text sits at column j (token 1, the placeholder,
\* carries the marker; only word tokens are compared).
C6_Original ==
    (Returned /\ call.fls /\ ret.n >= config.query_maxlen /\ ret.n <= CEILING) =>
        \A j \in 2..ret.n :
            ret.texts[1][j] = WordId =>
                /\ j + 1 <= Width(ret.ids)
                /\ ret.ids[1][j + 1] = WordId

PaddedContextWidth ==
    SetMax({Len(call.context.texts[i]) + 2 : i \in 1..Len(call.context.texts)})
QuerySideWidth ==
    IF config.cap_padding > 0
    THEN Min(ret.max_length, MaxUnpadded + config.cap_padding)
    ELSE ret.max_length

C8_ContextWidth ==
    (ReturnedPair /\ call.context.given) =>
        /\ Len(call.context.texts) = call.rows
        /\ Width(ret.ids) = QuerySideWidth + PaddedContextWidth - 1
        /\ Width(ret.mask) = QuerySideWidth + PaddedContextWidth - 1
        /\ \A i \in 1..Len(ret.ids) :
              SubSeq(ret.ids[i], QuerySideWidth + 1,
                     QuerySideWidth + Len(call.context.texts[i]) + 1)
                 = call.context.texts[i] \o <<sep_token_id>>

C8_Witness ==
    /\ ReturnedPair /\ call.context.given
    /\ call.rows = 2
    /\ config.cap_padding > 0
    /\ Width(ret.ids) - PaddedContextWidth + 1 < ret.tok_width
    /\ Len(call.context.texts[1]) # Len(call.context.texts[2])

\* C9 as stated: with verbose > 1 the first-example diagnostic is printed
\* exactly once, by the first call that returns an unsplit pair (the call
\* that sets the used latch).
C9_Original == (verbose > 1 /\ used) => printed = 1

\* C10: under the mask-token pad policy with attend_to_mask_tokens,
\* cap_padding = k > 0 and no context, the call passes the all-ones
\* assertion exactly when every row has unpadded_sizes[i] + k >= W', with
\* W' = min(W, max_j(unpadded_sizes[j] + k)); otherwise it raises.
TrimmedWidth == Min(ret.tok_width, MaxUnpadded + config.cap_padding)

C10_PassIffRowsReach ==
    (/\ call.made /\ NoContext /\ ret.failed # "full_length_search"
     /\ config.query_pad_tok = "mask" /\ config.attend_to_mask_tokens
     /\ config.cap_padding > 0) =>
        /\ Returned <=> \A i \in 1..Len(ret.unpadded_sizes) :
                           ret.unpadded_sizes[i] + config.cap_padding >= TrimmedWidth
        /\ ~Returned => ret.outcome = "AssertionError" /\ ret.failed = "dense"

C10_Witness ==
    /\ call.made /\ NoContext
    /\ config.query_pad_tok = "mask" /\ config.attend_to_mask_tokens
    /\ config.cap_padding > 0
    /\ ret.outcome = "AssertionError" /\ ret.failed = "dense"
    /\ \E i \in 1..Len(ret.unpadded_sizes) :
          ret.unpadded_sizes[i] + config.cap_padding < TrimmedWidth

====
